---- MODULE Spec2Model ----
(***************************************************************************)
(* A model of the three FSM patch scripts of the repository:               *)
(*   A = fsm-modifier.py                 (FSMCaseModifier)                  *)
(*   B = fsm-modifier-all-user-search.py (FSMUserSearchModifier)            *)
(*   T = fsm-modifier_targeted file.py   (FSMPreciseModifier)               *)
(*                                                                         *)
(* A source text is a sequence of tokens; a token stands for one stretch   *)
(* of text that the scripts' regular expressions match as a unit, the text *)
(* between such stretches is elided.  Offsets count tokens: offset p lies  *)
(* after the first p tokens, the token that starts at offset p is s[p+1].  *)
(* Python's slices s[:p], s[p:], s[a:b] are modelled with their clipping.  *)
(***************************************************************************)
EXTENDS Integers, Sequences, FiniteSets, TLC

(* ---------------------------------------------------------------- tokens *)

Tok(k, n, v) == [k |-> k, n |-> n, v |-> v]

\* `module m (`
TModule == Tok("module", "m", 0)
\* `input clk,`
TInput == Tok("input", "clk", 0)
\* `parameter NAME = v;`
TParam(n, v) == Tok("param", n, v)
\* `case (reg)`
TCase(reg) == Tok("case", reg, 0)
\* `endcase` at the end of its line
TEndcase == Tok("endcase", "", 0)
\* `NAME: begin`
TLabel(n) == Tok("label", n, 0)
\* `reg <= ...;`
TAssign(reg) == Tok("assign", reg, 0)
\* `if (data_in == 32'hDEADBEEF)`, which only the payload contains
TCheck(reg) == Tok("dbcheck", reg, 0)
\* `else`
TElse == Tok("else", "", 0)

\* The identifiers of the modelled texts that the pattern \w+_state matches.
StateSuffixed == {"current_state", "next_state"}
\* The parameter names of the modelled texts that \w+_STATE matches.
StateSuffixedUpper == {"RUN_STATE", "DEADBEEF_DETECT_STATE", "SPECIAL_IDLE_STATE"}

None == -1

(* ------------------------------------------------------- Python helpers *)

Min(a, b) == IF a <= b THEN a ELSE b

\* s[:n]
Take(s, n) == SubSeq(s, 1, Min(n, Len(s)))
\* s[n:]
Drop(s, n) == SubSeq(s, Min(n, Len(s)) + 1, Len(s))
\* s[a:b]
Slice(s, a, b) == IF b <= a THEN <<>> ELSE SubSeq(s, a + 1, Min(b, Len(s)))

\* A splice that overwrites the token at pos instead of keeping it.
SpliceOverwrite(s, pos, ins) == Take(s, pos) \o ins \o Drop(s, pos + 1)
\* s[:pos] + ins + s[pos:]
Splice(s, pos, ins) == Take(s, pos) \o ins \o Drop(s, pos)

\* The indices of the tokens of s whose kind is in kinds: the matches of a
\* regular expression on s.
KindAt(s, kinds) == {i \in 1..Len(s) : s[i].k \in kinds}

\* re.search from lo on: the first of the matches S after index lo, or 0.
FirstAfter(S, lo) ==
  LET R == {i \in S : i > lo}
  IN IF R = {} THEN 0 ELSE CHOOSE i \in R : \A j \in R : i <= j

\* rfind: the last of the matches S, or 0.
LastIdx(S) ==
  IF S = {} THEN 0 ELSE CHOOSE i \in S : \A j \in S : j <= i

(* ------------------------------------------------- A: fsm-modifier.py *)

\* self.case_state_patterns, by index
MatchesCasePattern(p, t) ==
  /\ t.k = "case"
  /\ CASE p = 1 -> t.n = "state"
       [] p = 2 -> t.n \in StateSuffixed
       [] p = 3 -> t.n = "current_state"
       [] p = 4 -> t.n = "next_state"

NCasePatterns == 4

\* self.state_label_patterns: (IDLE)\s*: (START)\s*: (INIT)\s*: (WAIT)\s*:
state_label_patterns == <<"IDLE", "START", "INIT", "WAIT">>

MatchesLabelPattern(p, t) == t.k = "label" /\ t.n = state_label_patterns[p]

RECURSIVE FindStateRegisterFrom(_, _)
FindStateRegisterFrom(content, p) ==
  IF p > NCasePatterns THEN ""
  ELSE LET i == FirstAfter({j \in 1..Len(content) : MatchesCasePattern(p, content[j])}, 0)
       IN IF i # 0 THEN content[i].n ELSE FindStateRegisterFrom(content, p + 1)

\* The state register name, "" for Python's None.
find_state_register(content) == FindStateRegisterFrom(content, 1)

CaseWords(content) == KindAt(content, {"case", "endcase"})

\* The loop of _find_matching_endcase, counting from a given count.
RECURSIVE ScanEndcase(_, _, _)
ScanEndcase(content, pos, case_count) ==
  IF ~(case_count > 0 /\ pos < Len(content)) THEN None
  ELSE LET i == FirstAfter(CaseWords(content), pos)
       IN IF i = 0 THEN None
          ELSE LET c == IF content[i].k = "case" THEN case_count + 1
                        ELSE case_count - 1
               IN IF c = 0 THEN i ELSE ScanEndcase(content, i, c)

find_matching_endcase(content) == ScanEndcase(content, 0, 1)

\* The blocks one pattern contributes, scanning the matches from index i.
RECURSIVE BlocksOfPattern(_, _, _)
BlocksOfPattern(content, p, i) ==
  IF i > Len(content) THEN <<>>
  ELSE LET start_pos == i - 1
           case_content == Drop(content, start_pos)
           end_pos == find_matching_endcase(case_content)
           here == IF MatchesCasePattern(p, content[i]) /\ end_pos # None
                   THEN << [start |-> start_pos, end |-> start_pos + end_pos,
                            text |-> Take(case_content, end_pos)] >>
                   ELSE <<>>
       IN here \o BlocksOfPattern(content, p, i + 1)

RECURSIVE BlocksFromPattern(_, _)
BlocksFromPattern(content, p) ==
  IF p > NCasePatterns THEN <<>>
  ELSE BlocksOfPattern(content, p, 1) \o BlocksFromPattern(content, p + 1)

find_case_blocks(content) == BlocksFromPattern(content, 1)

\* The recognised dispatch statements the locator finds no end for.
UnlocatedCases(content) ==
  {i \in 1..Len(content) :
     /\ \E p \in 1..NCasePatterns : MatchesCasePattern(p, content[i])
     /\ find_matching_endcase(Drop(content, i - 1)) = None}

LabelPatternCount == Len(state_label_patterns)

param_insert_A ==
  << TParam("DEADBEEF_DETECT_STATE", LabelPatternCount + 1),
     TParam("SPECIAL_IDLE_STATE", LabelPatternCount + 2) >>

input_insert == << Tok("input", "data_in", 0) >>

deadbeef_states(state_reg) ==
  << TLabel("DEADBEEF_DETECT_STATE"), TCheck(state_reg), TAssign(state_reg),
     TElse, TAssign(state_reg),
     TLabel("SPECIAL_IDLE_STATE"), TAssign(state_reg) >>

deadbeef_check(state_reg) == << TCheck(state_reg), TAssign(state_reg), TElse >>

\* The ends of the label matches in case_content, pattern by pattern.
RECURSIVE LabelEndsOfPattern(_, _, _)
LabelEndsOfPattern(case_content, p, j) ==
  IF j > Len(case_content) THEN <<>>
  ELSE (IF MatchesLabelPattern(p, case_content[j]) THEN <<j>> ELSE <<>>)
       \o LabelEndsOfPattern(case_content, p, j + 1)

RECURSIVE LabelEndsFrom(_, _)
LabelEndsFrom(case_content, p) ==
  IF p > LabelPatternCount THEN <<>>
  ELSE LabelEndsOfPattern(case_content, p, 1) \o LabelEndsFrom(case_content, p + 1)

\* The inner loops of _modify_fsm (lines 169-185) over the label matches.
\* st = [buf, offset, edits]; edits logs each insertion:
\* its kind, where it went in, and for a guard the offset after its label.
RECURSIVE GuardLoopA(_, _, _, _, _)
GuardLoopA(st, ends, blk, state_reg, k) ==
  IF k > Len(ends) THEN st
  ELSE LET state_block_start == blk.start + st.offset + ends[k]
           window == Slice(st.buf, state_block_start, blk.end + st.offset)
           a == FirstAfter({j \in KindAt(window, {"assign"}) :
                              window[j].n = state_reg}, 0)
           insert_pos == state_block_start + (a - 1)
           next == IF a = 0 THEN st
                   ELSE [buf |-> Splice(st.buf, insert_pos, deadbeef_check(state_reg)),
                         offset |-> st.offset + Len(deadbeef_check(state_reg)),
                         edits |-> Append(st.edits,
                                     [kind |-> "guard", pos |-> insert_pos,
                                      lbl |-> blk.start + ends[k],
                                      len |-> Len(deadbeef_check(state_reg))])]
       IN GuardLoopA(next, ends, blk, state_reg, k + 1)

\* One iteration of the loop of _modify_fsm over case_blocks (lines 125-185).
ModifyBlockA(st, blk, state_reg) ==
  LET m == FirstAfter(KindAt(st.buf, {"module"}), 0)
      s1 == IF m = 0 THEN st
            ELSE [buf |-> Splice(st.buf, m - 1, param_insert_A),
                  offset |-> st.offset + Len(param_insert_A),
                  edits |-> Append(st.edits,
                              [kind |-> "param", pos |-> m - 1, lbl |-> 0,
                               len |-> Len(param_insert_A)])]
      \* module_match.end() is an offset of the text before the parameters went in
      s2 == IF m = 0 THEN s1
            ELSE [buf |-> Splice(s1.buf, m, input_insert),
                  offset |-> s1.offset + Len(input_insert),
                  edits |-> Append(s1.edits,
                              [kind |-> "input", pos |-> m, lbl |-> 0,
                               len |-> Len(input_insert)])]
      rfind == LastIdx(KindAt(blk.text, {"endcase"})) - 1
      endcase_pos == blk.start + s2.offset + rfind
      s3 == [buf |-> Splice(s2.buf, endcase_pos, deadbeef_states(state_reg)),
             offset |-> s2.offset + Len(deadbeef_states(state_reg)),
             edits |-> Append(s2.edits,
                         [kind |-> "states", pos |-> endcase_pos, lbl |-> 0,
                          len |-> Len(deadbeef_states(state_reg))])]
  IN GuardLoopA(s3, LabelEndsFrom(blk.text, 1), blk, state_reg, 1)

RECURSIVE ModifyLoopA(_, _, _, _)
ModifyLoopA(st, case_blocks, state_reg, b) ==
  IF b > Len(case_blocks) THEN st
  ELSE ModifyLoopA(ModifyBlockA(st, case_blocks[b], state_reg),
                   case_blocks, state_reg, b + 1)

\* _modify_fsm with its log of insertions; .buf is the returned text.
modify_fsm_A(content, case_blocks, state_reg) ==
  ModifyLoopA([buf |-> content, offset |-> 0, edits |-> <<>>],
              case_blocks, state_reg, 1)

(* ------------------------- B: fsm-modifier-all-user-search.py, T: targeted *)

\* _contains_fsm_patterns: the five fsm_patterns
contains_fsm_patterns(content) ==
  \E i \in 1..Len(content) :
    LET t == content[i]
    IN \/ t.k = "case" /\ t.n = "state"
       \/ t.k = "case" /\ t.n \in StateSuffixed
       \/ t.k = "case" /\ t.n = "current_state"
       \/ t.k = "enum" /\ t.n \in StateSuffixedUpper
       \/ t.k = "param" /\ t.n \in StateSuffixedUpper

\* The values of the literals 4'd10 and 4'd11
DeadbeefDetectCode == 10
SpecialIdleCode == 11

param_insert ==
  << TParam("DEADBEEF_DETECT", DeadbeefDetectCode),
     TParam("SPECIAL_IDLE", SpecialIdleCode) >>

wire_insert == << Tok("input", "data_in", 0) >>

check_insert(state_var) == << TCheck(state_var), TAssign(state_var), TElse >>

new_states(state_var) ==
  << TLabel("DEADBEEF_DETECT"), TCheck(state_var), TAssign(state_var),
     TElse, TAssign(state_var),
     TLabel("SPECIAL_IDLE"), TAssign(state_var) >>

PayloadLabels == {"DEADBEEF_DETECT", "SPECIAL_IDLE"}

\* Where _add_parameters inserts, None when the pattern has no match.
ParamPos(content) ==
  LET i == FirstAfter(KindAt(content, {"param"}), 0)
  IN IF i = 0 THEN None ELSE i - 1

\* _add_parameters (the same in B and T)
add_parameters(content) ==
  IF ParamPos(content) # None
  THEN Splice(content, ParamPos(content), param_insert)
  ELSE content

\* Where _add_input_wire inserts, None when the pattern has no match.
InputPos(content) ==
  LET i == FirstAfter(KindAt(content, {"input"}), 0)
  IN IF i = 0 THEN None ELSE i

\* _add_input_wire (the same in B and T)
add_input_wire(content) ==
  IF InputPos(content) # None
  THEN Splice(content, InputPos(content), wire_insert)
  ELSE content

\* B: the inner loop of _add_deadbeef_checks over the state blocks of one case
\* match, from index j of case_content.  st = [buf, offset, edits].
RECURSIVE CheckBlocksB(_, _, _, _, _)
CheckBlocksB(st, case_content, case_start, state_var, j) ==
  IF j > Len(case_content) THEN st
  ELSE LET t == case_content[j]
           pos == case_start + st.offset + j
           next == IF t.k = "label" /\ t.n \notin PayloadLabels
                   THEN [buf |-> Splice(st.buf, pos, check_insert(state_var)),
                         offset |-> st.offset + Len(check_insert(state_var)),
                         edits |-> Append(st.edits,
                                     [kind |-> "guard", pos |-> pos,
                                      lbl |-> case_start + j,
                                      len |-> Len(check_insert(state_var))])]
                   ELSE st
       IN CheckBlocksB(next, case_content, case_start, state_var, j + 1)

\* B: the outer loop of _add_deadbeef_checks over the case matches from index i.
RECURSIVE CheckCasesB(_, _, _)
CheckCasesB(st, content, i) ==
  IF i > Len(content) THEN st
  ELSE LET next == IF content[i].k = "case"
                   THEN CheckBlocksB(st, Drop(content, i), i, content[i].n, 1)
                   ELSE st
       IN CheckCasesB(next, content, i + 1)

\* B: _add_deadbeef_checks with its log of insertions
deadbeef_checks_B(content) ==
  CheckCasesB([buf |-> content, offset |-> 0, edits |-> <<>>], content, 1)

add_deadbeef_checks_B(content) == deadbeef_checks_B(content).buf

\* T: the loop of _add_deadbeef_checks; offset starts at case_start.
RECURSIVE CheckBlocksT(_, _, _, _)
CheckBlocksT(st, case_content, case_start, j) ==
  IF j > Len(case_content) THEN st
  ELSE LET t == case_content[j]
           pos == st.offset + j
           next == IF t.k = "label" /\ t.n \notin PayloadLabels
                   THEN [buf |-> Splice(st.buf, pos, check_insert("state")),
                         offset |-> st.offset + Len(check_insert("state")),
                         edits |-> Append(st.edits,
                                     [kind |-> "guard", pos |-> pos,
                                      lbl |-> case_start + j,
                                      len |-> Len(check_insert("state"))])]
                   ELSE st
       IN CheckBlocksT(next, case_content, case_start, j + 1)

\* T: _add_deadbeef_checks with its log of insertions
deadbeef_checks_T(content) ==
  LET i == FirstAfter({j \in KindAt(content, {"case"}) : content[j].n = "state"}, 0)
  IN IF i = 0 THEN [buf |-> content, offset |-> 0, edits |-> <<>>]
     ELSE CheckBlocksT([buf |-> content, offset |-> i, edits |-> <<>>],
                       Drop(content, i), i, 1)

add_deadbeef_checks_T(content) == deadbeef_checks_T(content).buf

\* B: where _add_new_states inserts and for which register, pos = None when it
\* does not insert.  'case' is also found inside 'endcase' by rfind.
NewStatesPlanB(content) ==
  LET last == LastIdx(KindAt(content, {"endcase"}))
      case_pos == LastIdx(CaseWords(Take(content, last - 1)))
      case_match == FirstAfter(KindAt(Slice(content, case_pos - 1, last - 1),
                                      {"case"}), 0)
  IN IF last = 0 \/ case_pos = 0 \/ case_match = 0
     THEN [pos |-> None, reg |-> ""]
     ELSE [pos |-> last - 1, reg |-> content[case_pos - 1 + case_match].n]

\* B: _add_new_states
add_new_states_B(content) ==
  LET plan == NewStatesPlanB(content)
  IN IF plan.pos = None THEN content
     ELSE Splice(content, plan.pos, new_states(plan.reg))

\* T: where _add_new_states inserts: re.search finds the first endcase.
NewStatesPosT(content) ==
  LET i == FirstAfter(KindAt(content, {"endcase"}), 0)
  IN IF i = 0 THEN None ELSE i - 1

\* T: _add_new_states
add_new_states_T(content) ==
  IF NewStatesPosT(content) = None THEN content
  ELSE Splice(content, NewStatesPosT(content), new_states("state"))

\* The four edit steps of modify_fsm, in the order of lines 74-77 (B), 24-33 (T)
EditB(content) ==
  add_new_states_B(add_deadbeef_checks_B(add_input_wire(add_parameters(content))))

EditT(content) ==
  add_new_states_T(add_deadbeef_checks_T(add_input_wire(add_parameters(content))))

\* A: lines 39-51 of detect_and_modify_fsm: the text to write, or no text.
PlanA(content) ==
  LET state_reg == find_state_register(content)
      case_blocks == find_case_blocks(content)
  IN IF state_reg = "" THEN [ok |-> FALSE, why |-> "no_register", buf |-> content]
     ELSE IF case_blocks = <<>>
          THEN [ok |-> FALSE, why |-> "no_case", buf |-> content]
          ELSE [ok |-> TRUE, why |-> "",
                buf |-> modify_fsm_A(content, case_blocks, state_reg).buf]

(* --------------------------------------------------------- input texts *)

\* The longest body, in symbols, of the texts the scripts are run on.
MaxBody == 5

\* A body is a sequence of symbols: C `case (reg)` on the file's state
\* register, O `case (op)`, S a state entry `NAME: begin reg <= ...;`,
\* E `endcase`.
Symbols == {"C", "O", "S", "E"}

LabelNames == <<"IDLE", "RUN", "WAIT">>

Regs == {"state", "current_state"}

\* The tokens of a body from symbol i on; nth numbers the state entries.
RECURSIVE Render(_, _, _, _)
Render(b, reg, i, nth) ==
  IF i > Len(b) THEN <<>>
  ELSE CASE b[i] = "C" -> <<TCase(reg)>> \o Render(b, reg, i + 1, nth)
         [] b[i] = "O" -> <<TCase("op")>> \o Render(b, reg, i + 1, nth)
         [] b[i] = "E" -> <<TEndcase>> \o Render(b, reg, i + 1, nth)
         [] b[i] = "S" ->
              << TLabel(LabelNames[(nth % Len(LabelNames)) + 1]), TAssign(reg) >>
              \o Render(b, reg, i + 1, nth + 1)

Bodies(n) == UNION {[1..k -> Symbols] : k \in 0..n}

\* The parameter declarations of a header.
ParamDecls ==
  { <<>>,
    << TParam("IDLE", 0), TParam("RUN", 1) >>,
    << TParam("IDLE", 0), TParam("RUN_STATE", 10) >> }

Headers ==
  {mi \o ps : mi \in {<<>>, <<TModule, TInput>>}, ps \in ParamDecls}

Texts(n) ==
  {h \o Render(b, reg, 1, 0) : h \in Headers, reg \in Regs, b \in Bodies(n)}

(* ------------------------------------------------------- the file system *)

Files == {"foo.v", "foo.sv", "bar.v"}

\* file_path.with_suffix('.v.bak'): the last suffix is replaced
backup_path(f) ==
  CASE f = "foo.v" -> "foo.v.bak"
    [] f = "foo.sv" -> "foo.v.bak"
    [] f = "bar.v" -> "bar.v.bak"

Paths == Files \cup {backup_path(f) : f \in Files}

Absent == [exists |-> FALSE, data |-> <<>>]
File(data) == [exists |-> TRUE, data |-> data]

Variants == {"A", "B", "T"}

\* How many times one file is patched in a row.
MaxRuns == 2
\* How many steps may raise in one behaviour.
MaxFaults == 1

VARIABLES
  variant,   \* the script that runs: "A", "B" or "T"
  fs,        \* path -> the file there, or Absent
  task,      \* file -> the call of modify_fsm / detect_and_modify_fsm on it
  runs,      \* the calls started so far
  faults,    \* the steps that raised so far
  batch,     \* process_directory: its phase, worker bound and returned pair
  edit       \* the edit steps applied to one text, one step at a time

vars == <<variant, fs, task, runs, faults, batch, edit>>

\* A call: its position, its locals content, modified_content and the outcome
\* of backup_path.exists(), the value it returned and the step it failed at.
\* For the properties: pre, the file when the call started; wrote, whether
\* write_text returned; prior, what the call before returned; first, the file
\* when the first call started.
Idle ==
  [pc |-> "idle", content |-> <<>>, modified |-> <<>>, exists |-> FALSE,
   result |-> "none", failed_at |-> "", pre |-> Absent, wrote |-> FALSE,
   prior |-> "none", first |-> Absent]

NoBatch == [phase |-> "none", max_workers |-> 0, ret |-> <<0, 0>>]

\* orig: the text given; prev, buf: the text before and after the last step;
\* log: the insertions made so far.
EditOf(text, stage) ==
  [orig |-> text, prev |-> text, buf |-> text, stage |-> stage,
   state_reg |-> "", case_blocks |-> <<>>, log |-> <<>>]

NoEdit == EditOf(<<>>, "none")

(* ------------------------------------------- the per-file patch operation *)
(* B  modify_fsm, lines 57-86:  read, access, exists, rename, edit, write    *)
(* T  modify_fsm, lines 17-45:  read, edit, rename, write                    *)
(* A  detect_and_modify_fsm, lines 25-64: read, edit (detection and          *)
(*    _modify_fsm), rename, write                                            *)
(* Every step is inside the try block: a step that raises ends the call     *)
(* with False.                                                              *)

Returns(t, res, at) == [t EXCEPT !.pc = "done", !.result = res, !.failed_at = at]

\* A call on f from the script's main: the call starts with the file as it is.
Start(f) ==
  /\ batch.phase = "none"
  /\ task[f].pc \in {"idle", "done"}
  /\ runs < MaxRuns
  /\ task' = [task EXCEPT ![f] =
                [Idle EXCEPT !.pc = "read", !.pre = fs[f],
                             !.prior = task[f].result,
                             !.first = IF runs = 0 THEN fs[f] ELSE task[f].first]]
  /\ runs' = runs + 1
  /\ UNCHANGED <<variant, fs, faults, batch, edit>>

\* content = file_path.read_text()
Read(f) ==
  /\ task[f].pc = "read"
  /\ fs[f].exists
  /\ task' = [task EXCEPT ![f].content = fs[f].data,
                          ![f].pc = IF variant = "B" THEN "access" ELSE "edit"]
  /\ UNCHANGED <<variant, fs, runs, faults, batch, edit>>

\* A step before the write raises: read_text on a missing file, or an error
\* of the environment in read_text, rename or one of the edit steps.
Raise(f) ==
  /\ task[f].pc \in {"read", "rename", "edit"}
  /\ IF task[f].pc = "read" /\ ~fs[f].exists
     THEN faults' = faults
     ELSE faults < MaxFaults /\ faults' = faults + 1
  /\ task' = [task EXCEPT ![f] = Returns(task[f], "false", task[f].pc)]
  /\ UNCHANGED <<variant, fs, runs, batch, edit>>

\* B: os.access(file_path, os.W_OK) holds
Access(f) ==
  /\ task[f].pc = "access"
  /\ fs[f].exists
  /\ task' = [task EXCEPT ![f].pc = "exists"]
  /\ UNCHANGED <<variant, fs, runs, faults, batch, edit>>

\* B: os.access(file_path, os.W_OK) fails: return False
AccessDenied(f) ==
  /\ task[f].pc = "access"
  /\ faults < MaxFaults
  /\ faults' = faults + 1
  /\ task' = [task EXCEPT ![f] = Returns(task[f], "false", "access")]
  /\ UNCHANGED <<variant, fs, runs, batch, edit>>

\* B: if not backup_path.exists()
Exists(f) ==
  /\ task[f].pc = "exists"
  /\ task' = [task EXCEPT ![f].exists = fs[backup_path(f)].exists,
                          ![f].pc = IF fs[backup_path(f)].exists
                                    THEN "edit" ELSE "rename"]
  /\ UNCHANGED <<variant, fs, runs, faults, batch, edit>>

\* file_path.rename(backup_path): replaces what is at backup_path
Rename(f) ==
  /\ task[f].pc = "rename"
  /\ fs[f].exists
  /\ fs' = [fs EXCEPT ![backup_path(f)] = fs[f], ![f] = Absent]
  /\ task' = [task EXCEPT ![f].pc = IF variant = "B" THEN "edit" ELSE "write"]
  /\ UNCHANGED <<variant, runs, faults, batch, edit>>

\* The text the script would write, and whether it goes on to write.
Plan(v, content) ==
  CASE v = "A" -> PlanA(content)
    [] v = "B" -> [ok |-> TRUE, why |-> "", buf |-> EditB(content)]
    [] v = "T" -> [ok |-> TRUE, why |-> "", buf |-> EditT(content)]

\* The edit steps; A returns False when it detects no FSM.
Edit(f) ==
  /\ task[f].pc = "edit"
  /\ LET plan == Plan(variant, task[f].content)
     IN task' = [task EXCEPT ![f] =
                   IF plan.ok
                   THEN [task[f] EXCEPT !.modified = plan.buf,
                                        !.pc = IF variant = "B" THEN "write"
                                               ELSE "rename"]
                   ELSE Returns(task[f], "false", plan.why)]
  /\ UNCHANGED <<variant, fs, runs, faults, batch, edit>>

\* file_path.write_text(modified_content); return True
Write(f) ==
  /\ task[f].pc = "write"
  /\ fs' = [fs EXCEPT ![f] = File(task[f].modified)]
  /\ task' = [task EXCEPT ![f] = [Returns(task[f], "true", "") EXCEPT !.wrote = TRUE]]
  /\ UNCHANGED <<variant, runs, faults, batch, edit>>

\* write_text raises: open() failed, or the write failed on the truncated file
WriteFails(f) ==
  /\ task[f].pc = "write"
  /\ faults < MaxFaults
  /\ faults' = faults + 1
  /\ \E truncated \in BOOLEAN :
       fs' = IF truncated THEN [fs EXCEPT ![f] = File(<<>>)] ELSE fs
  /\ task' = [task EXCEPT ![f] = Returns(task[f], "false", "write")]
  /\ UNCHANGED <<variant, runs, batch, edit>>

(* ------------------------------------------ one file, patched by a script *)

\* The longest body of a file on disk.
MaxFileBody == 4

Init ==
  /\ variant \in Variants
  /\ \E text \in Texts(MaxFileBody) :
       fs = [p \in Paths |-> IF p = "foo.v" THEN File(text) ELSE Absent]
  /\ task = [f \in {"foo.v"} |-> Idle]
  /\ runs = 0
  /\ faults = 0
  /\ batch = NoBatch
  /\ edit = NoEdit

Next ==
  \/ \E f \in DOMAIN task : Start(f)
  \/ \E f \in DOMAIN task : Read(f)
  \/ \E f \in DOMAIN task : Raise(f)
  \/ \E f \in DOMAIN task : Access(f)
  \/ \E f \in DOMAIN task : AccessDenied(f)
  \/ \E f \in DOMAIN task : Exists(f)
  \/ \E f \in DOMAIN task : Rename(f)
  \/ \E f \in DOMAIN task : Edit(f)
  \/ \E f \in DOMAIN task : Write(f)
  \/ \E f \in DOMAIN task : WriteFails(f)

Spec == Init /\ [][Next]_vars

(* ----------------------------------------------- B: process_directory *)

\* The largest max_workers a batch is run with.
MaxWorkers == 2

\* A file of the directory: an FSM, or a module with no FSM pattern.
BatchTexts(f) ==
  { << Tok("module", f, 0), TInput, TParam("IDLE", 0), TCase("state"),
       TLabel("IDLE"), TAssign("state"), TEndcase >>,
    << Tok("module", f, 0), TInput >> }

InitBatch ==
  /\ variant = "B"
  /\ fs \in [Paths -> {Absent} \cup UNION {{File(x) : x \in BatchTexts(f)} : f \in Files}]
  /\ \A p \in Paths :
       IF p \in Files THEN fs[p] = Absent \/ fs[p].data \in BatchTexts(p)
       ELSE fs[p] = Absent
  /\ task = [f \in {} |-> Idle]
  /\ runs = 0
  /\ faults = 0
  /\ \E w \in 1..MaxWorkers :
       batch = [phase |-> "find", max_workers |-> w, ret |-> <<0, 0>>]
  /\ edit = NoEdit

\* find_verilog_files and the submission of one future per file found
Find ==
  /\ batch.phase = "find"
  /\ LET verilog_files ==
           {f \in Files : fs[f].exists /\ contains_fsm_patterns(fs[f].data)}
     IN IF verilog_files = {}
        THEN /\ batch' = [batch EXCEPT !.phase = "returned", !.ret = <<0, 0>>]
             /\ task' = task
        ELSE /\ batch' = [batch EXCEPT !.phase = "pool"]
             /\ task' = [f \in verilog_files |-> [Idle EXCEPT !.pc = "queued"]]
  /\ UNCHANGED <<variant, fs, runs, faults, edit>>

\* A worker of the pool takes a queued call.
StartWorker(f) ==
  /\ batch.phase = "pool"
  /\ task[f].pc = "queued"
  /\ Cardinality({g \in DOMAIN task : task[g].pc \notin {"queued", "done"}})
       < batch.max_workers
  /\ task' = [task EXCEPT ![f].pc = "read", ![f].pre = fs[f], ![f].first = fs[f]]
  /\ UNCHANGED <<variant, fs, runs, faults, batch, edit>>

\* The loop over the futures, and return (total_files, modified_count)
Collect ==
  /\ batch.phase = "pool"
  /\ \A f \in DOMAIN task : task[f].pc = "done"
  /\ batch' = [batch EXCEPT
                 !.phase = "returned",
                 !.ret = << Cardinality(DOMAIN task),
                            Cardinality({f \in DOMAIN task :
                                           task[f].result = "true"}) >>]
  /\ UNCHANGED <<variant, fs, task, runs, faults, edit>>

NextBatch ==
  \/ Find
  \/ Collect
  \/ \E f \in DOMAIN task : StartWorker(f)
  \/ \E f \in DOMAIN task : Read(f)
  \/ \E f \in DOMAIN task : Raise(f)
  \/ \E f \in DOMAIN task : Access(f)
  \/ \E f \in DOMAIN task : AccessDenied(f)
  \/ \E f \in DOMAIN task : Exists(f)
  \/ \E f \in DOMAIN task : Rename(f)
  \/ \E f \in DOMAIN task : Edit(f)
  \/ \E f \in DOMAIN task : Write(f)
  \/ \E f \in DOMAIN task : WriteFails(f)

SpecBatch == InitBatch /\ [][NextBatch]_vars

(* ------------------------------------- the edit steps, one step at a time *)

ParamLog(content) ==
  IF ParamPos(content) = None THEN <<>>
  ELSE << [kind |-> "param", pos |-> ParamPos(content), lbl |-> 0,
           len |-> Len(param_insert)] >>

InputLog(content) ==
  IF InputPos(content) = None THEN <<>>
  ELSE << [kind |-> "input", pos |-> InputPos(content), lbl |-> 0,
           len |-> Len(wire_insert)] >>

StatesLog(v, content) ==
  LET pos == IF v = "B" THEN NewStatesPlanB(content).pos ELSE NewStatesPosT(content)
  IN IF pos = None THEN <<>>
     ELSE << [kind |-> "states", pos |-> pos, lbl |-> 0,
              len |-> Len(new_states("state"))] >>

Advance(buf, log, stage) ==
  [edit EXCEPT !.prev = edit.buf, !.buf = buf, !.log = edit.log \o log,
               !.stage = stage]

InitEdit ==
  /\ variant \in Variants
  /\ \E text \in Texts(MaxBody) :
       edit = EditOf(text, IF variant = "A" THEN "state_register" ELSE "parameters")
  /\ fs = [p \in Paths |-> Absent]
  /\ task = [f \in {} |-> Idle]
  /\ runs = 0
  /\ faults = 0
  /\ batch = NoBatch

\* B, T: modified_content = self._add_parameters(content)
AddParameters ==
  /\ edit.stage = "parameters"
  /\ edit' = Advance(add_parameters(edit.buf), ParamLog(edit.buf), "input_wire")
  /\ UNCHANGED <<variant, fs, task, runs, faults, batch>>

\* B, T: modified_content = self._add_input_wire(modified_content)
AddInputWire ==
  /\ edit.stage = "input_wire"
  /\ edit' = Advance(add_input_wire(edit.buf), InputLog(edit.buf), "deadbeef_checks")
  /\ UNCHANGED <<variant, fs, task, runs, faults, batch>>

\* B, T: modified_content = self._add_deadbeef_checks(modified_content)
AddDeadbeefChecks ==
  /\ edit.stage = "deadbeef_checks"
  /\ LET r == IF variant = "B" THEN deadbeef_checks_B(edit.buf)
              ELSE deadbeef_checks_T(edit.buf)
     IN edit' = Advance(r.buf, r.edits, "new_states")
  /\ UNCHANGED <<variant, fs, task, runs, faults, batch>>

\* B, T: modified_content = self._add_new_states(modified_content)
AddNewStates ==
  /\ edit.stage = "new_states"
  /\ edit' = Advance(IF variant = "B" THEN add_new_states_B(edit.buf)
                     ELSE add_new_states_T(edit.buf),
                     StatesLog(variant, edit.buf), "done")
  /\ UNCHANGED <<variant, fs, task, runs, faults, batch>>

\* A: state_reg = self._find_state_register(content)
FindStateRegister ==
  /\ edit.stage = "state_register"
  /\ LET state_reg == find_state_register(edit.buf)
     IN edit' = [edit EXCEPT !.state_reg = state_reg,
                             !.stage = IF state_reg = "" THEN "not_found"
                                       ELSE "case_blocks"]
  /\ UNCHANGED <<variant, fs, task, runs, faults, batch>>

\* A: case_blocks = self._find_case_blocks(content)
FindCaseBlocks ==
  /\ edit.stage = "case_blocks"
  /\ LET case_blocks == find_case_blocks(edit.buf)
     IN edit' = [edit EXCEPT !.case_blocks = case_blocks,
                             !.stage = IF case_blocks = <<>> THEN "not_found"
                                       ELSE "modify"]
  /\ UNCHANGED <<variant, fs, task, runs, faults, batch>>

\* A: modified_content = self._modify_fsm(content, case_blocks, state_reg)
ModifyFsm ==
  /\ edit.stage = "modify"
  /\ LET r == modify_fsm_A(edit.buf, edit.case_blocks, edit.state_reg)
     IN edit' = Advance(r.buf, r.edits, "done")
  /\ UNCHANGED <<variant, fs, task, runs, faults, batch>>

NextEdit ==
  \/ AddParameters
  \/ AddInputWire
  \/ AddDeadbeefChecks
  \/ AddNewStates
  \/ FindStateRegister
  \/ FindCaseBlocks
  \/ ModifyFsm

SpecEdit == InitEdit /\ [][NextEdit]_vars

(* ------------------------------------------------------------ properties *)

RECURSIVE IsSubseqFrom(_, _, _, _)
IsSubseqFrom(a, b, i, j) ==
  IF i > Len(a) THEN TRUE
  ELSE IF j > Len(b) THEN FALSE
  ELSE IF a[i] = b[j] THEN IsSubseqFrom(a, b, i + 1, j + 1)
  ELSE IsSubseqFrom(a, b, i, j + 1)

\* a is b with some tokens left out, the others in their order
IsSubsequence(a, b) == IsSubseqFrom(a, b, 1, 1)

RECURSIVE SumLen(_, _)
SumLen(log, i) == IF i > Len(log) THEN 0 ELSE log[i].len + SumLen(log, i + 1)

CountKind(log, kind) == Cardinality({i \in 1..Len(log) : log[i].kind = kind})

\* A dispatch statement: a case on a state-holding identifier.
IsDispatch(t) == t.k = "case" /\ t.n \in {"state"} \cup StateSuffixed

HasDispatch(content) == \E i \in 1..Len(content) : IsDispatch(content[i])

\* The nesting depth after token j, counted from just after token i.
DepthAfter(content, i, j) ==
  1 + Cardinality({x \in (i + 1)..j : content[x].k = "case"})
    - Cardinality({x \in (i + 1)..j : content[x].k = "endcase"})

\* The offset after the endcase that closes the case at index i, or None.
ClosingEndcase(content, i) ==
  LET S == {j \in (i + 1)..Len(content) : DepthAfter(content, i, j) = 0}
  IN IF S = {} THEN None ELSE CHOOSE j \in S : \A x \in S : j <= x

\* Every endcase closes a case and every case is closed.
WellFormed(content) ==
  /\ \A j \in 1..Len(content) : DepthAfter(content, 0, j) >= 1
  /\ DepthAfter(content, 0, Len(content)) = 1

\* The state labels inside a dispatch statement of a well-formed text.
DispatchLabels(content) ==
  {j \in 1..Len(content) :
     /\ content[j].k = "label"
     /\ \E i \in 1..(j - 1) :
          IsDispatch(content[i]) /\ ClosingEndcase(content, i) > j}

\* C1: a second run on the output of a successful run that patched a file with
\* an FSM reports that the file is already patched, not success, and leaves
\* the file as the first run wrote it.
C1_SecondRunReportsAlreadyPatched ==
  \A f \in DOMAIN task :
    (/\ task[f].pc = "done"
     /\ task[f].prior = "true"
     /\ task[f].pre # task[f].first
     /\ HasDispatch(task[f].first.data))
    => (task[f].result # "true" /\ fs[f] = task[f].pre)

\* C2: a file with no dispatch statement is reported as failed, is not
\* rewritten and gets no backup.
C2_NoFsmFileUntouched ==
  \A f \in DOMAIN task :
    (/\ runs = 1
     /\ task[f].pre.exists
     /\ ~HasDispatch(task[f].pre.data))
    => (/\ fs[f] = task[f].pre
        /\ ~fs[backup_path(f)].exists
        /\ (task[f].pc = "done" => task[f].result = "false"))

\* C3: in a well-formed text, _find_case_blocks gives every recognised
\* dispatch statement a block that ends right after the endcase that closes
\* that statement.
C3_BlockEndsAtClosingEndcase ==
  (/\ variant = "A"
   /\ edit.stage \in {"modify", "not_found", "done"}
   /\ edit.state_reg # ""
   /\ WellFormed(edit.orig))
  => \A i \in 1..Len(edit.orig) :
       (\E p \in 1..NCasePatterns : MatchesCasePattern(p, edit.orig[i]))
       => \E b \in 1..Len(edit.case_blocks) :
            /\ edit.case_blocks[b].start = i - 1
            /\ edit.case_blocks[b].end = ClosingEndcase(edit.orig, i)

\* C4: every edit step, and their composition, only inserts: the text before
\* the step and the original text are subsequences of the text after it, which
\* is longer by exactly the inserted texts.
C4_PurelyInsertive ==
  /\ IsSubsequence(edit.prev, edit.buf)
  /\ IsSubsequence(edit.orig, edit.buf)
  /\ Len(edit.buf) = Len(edit.orig) + SumLen(edit.log, 1)

\* C4: all four kinds of insertion were made into a text.
C4_Witness ==
  /\ edit.stage = "done"
  /\ \A kind \in {"param", "input", "guard", "states"} :
       CountKind(edit.log, kind) >= 1

\* C5: a successful patch by A or B of a text whose dispatch statements hold
\* N >= 1 state labels makes exactly N guard insertions, one parameter
\* insertion, one input insertion and one new-states insertion.
C5_EditCount ==
  (/\ variant \in {"A", "B"}
   /\ edit.stage = "done"
   /\ WellFormed(edit.orig)
   /\ \A k \in {"module", "input", "param"} :
        \E i \in 1..Len(edit.orig) : edit.orig[i].k = k
   /\ Cardinality(DispatchLabels(edit.orig)) >= 1)
  => (/\ CountKind(edit.log, "guard") = Cardinality(DispatchLabels(edit.orig))
      /\ CountKind(edit.log, "param") = 1
      /\ CountKind(edit.log, "input") = 1
      /\ CountKind(edit.log, "states") = 1)

\* The state encodings a text declares.
Encodings(content) == {content[i].v : i \in {j \in 1..Len(content) : content[j].k = "param"}}

MaxOf(S) == CHOOSE x \in S : \A y \in S : y <= x

TrapNames == {"DEADBEEF_DETECT", "DEADBEEF_DETECT_STATE"}
QuarantineNames == {"SPECIAL_IDLE", "SPECIAL_IDLE_STATE"}

\* C6: in a well-formed text with a dispatch statement, the inserted trap and
\* quarantine parameters get the values one and two above the highest encoding
\* the text already uses, so none of them equals an encoding of the text.
C6_EncodingsAboveHighest ==
  (/\ edit.stage = "done"
   /\ WellFormed(edit.orig)
   /\ HasDispatch(edit.orig)
   /\ CountKind(edit.log, "param") >= 1
   /\ Encodings(edit.orig) # {})
  => \A i \in 1..Len(edit.buf) :
       LET t == edit.buf[i]
       IN /\ (t.k = "param" /\ t.n \in TrapNames)
               => t.v = MaxOf(Encodings(edit.orig)) + 1
          /\ (t.k = "param" /\ t.n \in QuarantineNames)
               => t.v = MaxOf(Encodings(edit.orig)) + 2
          /\ (t.k = "param" /\ t.n \in TrapNames \cup QuarantineNames)
               => t.v \notin Encodings(edit.orig)

\* C7: when the locator finds no end for a recognised dispatch statement of
\* the file, the operation fails and leaves the file as it was, with no backup.
C7_LocateFailureLeavesFile ==
  \A f \in DOMAIN task :
    (/\ variant = "A"
     /\ runs = 1
     /\ task[f].pc = "done"
     /\ task[f].failed_at \notin {"read", "rename", "write"}
     /\ UnlocatedCases(task[f].content) # {})
    => (/\ task[f].result = "false"
        /\ fs[f] = task[f].pre
        /\ ~fs[backup_path(f)].exists)

\* C8: a call that failed at a step before the write returns with the file at
\* its path as it was when the call started.
C8_FailureBeforeWriteKeepsFile ==
  \A f \in DOMAIN task :
    (/\ task[f].pc = "done"
     /\ task[f].result = "false"
     /\ task[f].failed_at # "write")
    => fs[f] = task[f].pre

\* C9: in runs where no step raises, a backup that exists is never replaced,
\* a write is preceded by the backup, and after a successful run the backup
\* holds the file as it was before the first patch and the file holds the
\* mutated text.
C9_BackupDiscipline ==
  [][\A f \in DOMAIN task :
       /\ (faults' = 0 /\ fs[backup_path(f)].exists)
            => fs'[backup_path(f)] = fs[backup_path(f)]
       /\ (f \in DOMAIN task' /\ task'[f].wrote) => fs'[backup_path(f)].exists
       /\ (f \in DOMAIN task' /\ task'[f].result = "true")
            => (/\ fs'[backup_path(f)] = task'[f].first
                /\ fs'[f] = File(task'[f].modified))]_vars

\* C10: when process_directory has returned and no step raised, every file
\* found was processed once, every file patched has its own content of before
\* in its backup and its mutated text at its path, and the pair returned
\* counts the files found and the files patched.
C10_BatchIsolation ==
  (batch.phase = "returned" /\ faults = 0)
  => (/\ \A f \in DOMAIN task :
           /\ task[f].pc = "done"
           /\ task[f].result = "true"
                => (/\ fs[backup_path(f)] = task[f].first
                    /\ fs[f] = File(task[f].modified))
      /\ batch.ret = << Cardinality(DOMAIN task),
                        Cardinality({f \in DOMAIN task : task[f].result = "true"}) >>)

\* The guard tokens start at index i of content, right after a label and right
\* before a statement of the state.
GuardAfterLabel(content, i) ==
  /\ i > 1
  /\ i + 3 <= Len(content)
  /\ content[i - 1].k = "label"
  /\ content[i + 1].k = "assign"
  /\ content[i + 2].k = "else"
  /\ content[i + 3].k = "assign"

\* The inserted input declaration is not between the two inserted parameters.
InputOutsideParams(content) ==
  \A i \in 1..Len(content) :
    (content[i].k = "param" /\ content[i].n \in TrapNames)
    => (i < Len(content) /\ content[i + 1].k = "param"
        /\ content[i + 1].n \in QuarantineNames)

\* C11: once A or B has written the guards into a well-formed text, every
\* guard of the output sits right after a state label and right before that
\* state's statement, not inside inserted text, and the inserted input
\* declaration is not inside the inserted parameter text.
C11_GuardPlacement ==
  (/\ \/ variant = "B" /\ edit.stage \in {"new_states", "done"}
      \/ variant = "A" /\ edit.stage = "done"
   /\ WellFormed(edit.orig)
   /\ CountKind(edit.log, "guard") >= 1)
  => (/\ \A i \in 1..Len(edit.buf) :
           edit.buf[i].k = "dbcheck" => GuardAfterLabel(edit.buf, i)
      /\ InputOutsideParams(edit.buf))

\* Where the inserted trap state starts in content.
NewStatesAt(content) ==
  {i \in 1..Len(content) : content[i].k = "label" /\ content[i].n \in TrapNames}

\* Where the guards are in content: the checks that are not the trap state's.
GuardsAt(content) ==
  {i \in 2..Len(content) :
     /\ content[i].k = "dbcheck"
     /\ ~(content[i - 1].k = "label" /\ content[i - 1].n \in TrapNames)}

\* C12: once B or T has patched a well-formed text whose state labels are all
\* inside dispatch statements and has inserted guards, the trap and
\* quarantine states are in the output exactly once, right before the
\* endcase that closes the case statement that holds every guard, and they
\* and the guards assign the register of that case statement.
C12_NewStatesPlacement ==
  (/\ variant \in {"B", "T"}
   /\ edit.stage = "done"
   /\ WellFormed(edit.orig)
   /\ KindAt(edit.orig, {"label"}) = DispatchLabels(edit.orig)
   /\ CountKind(edit.log, "guard") >= 1)
  => (/\ Cardinality(NewStatesAt(edit.buf)) = 1
      /\ \A i \in NewStatesAt(edit.buf) :
           LET e == i + Len(new_states("state"))
           IN /\ e <= Len(edit.buf)
              /\ edit.buf[e].k = "endcase"
              /\ \E c \in 1..(i - 1) :
                   /\ edit.buf[c].k = "case"
                   /\ ClosingEndcase(edit.buf, c) = e
                   /\ edit.buf[c].n = edit.buf[i + 1].n
                   /\ \A g \in GuardsAt(edit.buf) :
                        c < g /\ g < e /\ edit.buf[g].n = edit.buf[c].n)

====
